---------------------------- MODULE Spec2Model ----------------------------
(***************************************************************************)
(* A model of the NEO-M8 GPS driver (src/gps_driver.py, class GPSReceive). *)
(*                                                                         *)
(* Bytes are integers 0..255, byte strings and text strings are sequences  *)
(* of them (text: sequences of code points).  Python indices are 0-based;  *)
(* the helpers below keep Python's conventions (find returns -1, slices    *)
(* clip, negative indices count from the end) so that the code's index     *)
(* arithmetic is translated as written.                                    *)
(***************************************************************************)
EXTENDS Integers, Sequences, FiniteSets, TLC

VARIABLES
    background_buffer,  \* self.background_buffer: the sentence buffer (bytes)
    data,               \* self.data: sentence cache, kind -> decoded sentence
    ackdata,            \* self.ackdata: scratch of _ubx_ack_nack
    tx,                 \* the packets the current call handed to self.gps.write,
                        \* in order of their first write (a repeat of the last
                        \* packet is counted in sent)
    sent,               \* number of writes of the packet last written
    outcomes,           \* what the waits of the current step returned, in order
    acked,              \* the steps of the current call that were acknowledged
    pc,                 \* position of the running call ("idle": no call)
    op,                 \* the public method being executed
    sentences_read,     \* local of _update_data
    result,             \* outcome of the last finished public call
    last_read,          \* what the latest read of update_buffer() returned
    reads,              \* number of reads that update_buffer() has made
    data_section,       \* local of _update_data: the record last extracted
    step,               \* modulesetup: index of the configuration step
    count,              \* modulesetup: local retry counter
    flag,               \* modulesetup: local flag (last ack-wait outcome)
    ticks,              \* _ubx_ack_nack: clock ticks elapsed since start
    arg                 \* input of the call under test (pure-function checks)

vars == <<background_buffer, data, ackdata, tx, sent, outcomes, acked, pc, op, sentences_read, result,
          last_read, reads, data_section, step, count, flag, ticks, arg>>

-----------------------------------------------------------------------------
(* Python sequence primitives *)

Min(a, b) == IF a < b THEN a ELSE b
Max(a, b) == IF a > b THEN a ELSE b

\* s[lo:hi] with Python's clipping and negative indices.
PySlice(s, lo, hi) ==
    LET n == Len(s)
        l == IF lo < 0 THEN Max(n + lo, 0) ELSE Min(lo, n)
        h == IF hi < 0 THEN Max(n + hi, 0) ELSE Min(hi, n)
    IN  IF h <= l THEN << >> ELSE SubSeq(s, l + 1, h)

\* s[lo:]
PySliceFrom(s, lo) == PySlice(s, lo, Len(s))

\* s.find(sub, start): lowest 0-based index >= start where sub occurs, or -1.
PyFind(s, sub, start) ==
    LET n == Len(s)
        m == Len(sub)
        from == IF start < 0 THEN Max(n + start, 0) ELSE start
        hits == {i \in from .. (n - m) : SubSeq(s, i + 1, i + m) = sub}
    IN  IF hits = {} THEN -1 ELSE CHOOSE i \in hits : \A j \in hits : i <= j

\* The k-th smallest element of a finite set of integers.
Nth(S, k) == CHOOSE p \in S : Cardinality({q \in S : q < p}) = k - 1

\* s.split(sep) for a one-character separator: the fields between the
\* occurrences of sep, in order.
PySplit(s, sep) ==
    LET cuts == {i \in 1 .. Len(s) : s[i] = sep}
        n == Cardinality(cuts)
        cut(k) == IF k = 0 THEN 0 ELSE IF k = n + 1 THEN Len(s) + 1 ELSE Nth(cuts, k)
    IN  [k \in 1 .. (n + 1) |-> SubSeq(s, cut(k - 1) + 1, cut(k) - 1)]

\* a ^ b on non-negative integers.
RECURSIVE BitXor(_, _)
BitXor(a, b) ==
    IF a = 0 THEN b
    ELSE IF b = 0 THEN a
    ELSE (((a % 2) + (b % 2)) % 2) + 2 * BitXor(a \div 2, b \div 2)

RECURSIVE Pow(_, _)
Pow(b, e) == IF e = 0 THEN 1 ELSE b * Pow(b, e - 1)

\* The text of one upper-case hexadecimal digit.
HexDigit(d) == IF d < 10 THEN 48 + d ELSE 55 + d

\* "%02X" % v, for v in 0..255.
Format02X(v) == <<HexDigit(v \div 16), HexDigit(v % 16)>>

-----------------------------------------------------------------------------
(* Checksums *)

\* checksum ^= i for every i of bytes, from checksum = 0.  XOR is associative,
\* so the fold is evaluated by halves to keep the evaluation shallow.
RECURSIVE XorAll(_)
XorAll(bytes) ==
    IF bytes = << >> THEN 0
    ELSE IF Len(bytes) = 1 THEN bytes[1]
    ELSE LET h == Len(bytes) \div 2
         IN  BitXor(XorAll(SubSeq(bytes, 1, h)), XorAll(SubSeq(bytes, h + 1, Len(bytes))))

Star == 42
Dollar == 36
LineFeed == 10
Comma == 44
Dot == 46

\* _checksum with a plausible slip: the XOR starts at the '$' (slice [0:pos]).
ChecksumFromMarker(nmea_sentence) ==
    LET checksum_pos == PyFind(nmea_sentence, <<Star>>, 0)
        checksum == Format02X(XorAll(PySlice(nmea_sentence, 0, checksum_pos)))
    IN  PySlice(nmea_sentence, checksum_pos + 1, checksum_pos + 3) = checksum

\* _checksum with a plausible slip: only the first hex digit is compared.
ChecksumFirstDigit(nmea_sentence) ==
    LET checksum_pos == PyFind(nmea_sentence, <<Star>>, 0)
        checksum == Format02X(XorAll(PySlice(nmea_sentence, 1, checksum_pos)))
    IN  PySlice(nmea_sentence, checksum_pos + 1, checksum_pos + 2)
            = PySlice(checksum, 0, 1)

_checksum(nmea_sentence) ==
    LET checksum_pos == PyFind(nmea_sentence, <<Star>>, 0)
        nmea_sentence_stripped == PySlice(nmea_sentence, 1, checksum_pos)
        checksum == Format02X(XorAll(nmea_sentence_stripped))
    IN  PySlice(nmea_sentence, checksum_pos + 1, checksum_pos + 3) = checksum

\* The sums (ck_a, ck_b) after "ck_a += byte; ck_b += ck_a" for every byte,
\* from (0, 0), before masking.  Running the loop over x and then over y
\* leaves ck_a = a_x + a_y and ck_b = b_x + b_y + Len(y) * a_x; the fold is
\* evaluated by halves to keep the evaluation shallow.
RECURSIVE UbxSums(_)
UbxSums(bytes) ==
    IF bytes = << >> THEN <<0, 0>>
    ELSE IF Len(bytes) = 1 THEN <<bytes[1], bytes[1]>>
    ELSE LET h == Len(bytes) \div 2
             x == UbxSums(SubSeq(bytes, 1, h))
             y == UbxSums(SubSeq(bytes, h + 1, Len(bytes)))
         IN  <<x[1] + y[1], x[2] + y[2] + (Len(bytes) - h) * x[1]>>

\* _ubx_checksum with a plausible slip: ck_b adds the byte, not ck_a.
UbxChecksumFlat(ubx_packet) ==
    <<UbxSums(ubx_packet)[1] % 256, UbxSums(ubx_packet)[1] % 256>>

\* _ubx_checksum: the bytes ck_a & 0xFF and ck_b & 0xFF.
_ubx_checksum(ubx_packet) ==
    LET s == UbxSums(ubx_packet)
    IN  <<s[1] % 256, s[2] % 256>>

-----------------------------------------------------------------------------
(* Text: bytes.decode('utf-8'), int(), float() *)

\* Number of continuation bytes a UTF-8 lead byte asks for; -1: not a lead byte.
Utf8Need(c) ==
    IF c < 128 THEN 0
    ELSE IF c < 192 THEN -1
    ELSE IF c < 224 THEN 1
    ELSE IF c < 240 THEN 2
    ELSE IF c < 248 THEN 3
    ELSE -1

IsContinuation(c) == c \in 128 .. 191

\* The code point encoded at lead position i of b.
CodePoint(b, i) ==
    LET c == b[i]
        need == Utf8Need(c)
    IN  CASE need = 0 -> c
          [] need = 1 -> (c - 192) * 64 + (b[i + 1] - 128)
          [] need = 2 -> (c - 224) * 4096 + (b[i + 1] - 128) * 64 + (b[i + 2] - 128)
          [] need = 3 -> (c - 240) * 262144 + (b[i + 1] - 128) * 4096
                         + (b[i + 2] - 128) * 64 + (b[i + 3] - 128)

\* The decoding with a plausible slip: bytes that are not text are dropped
\* (errors='ignore') and no UnicodeError is raised.
Utf8DecodeIgnoring(b) ==
    [ok |-> TRUE, text |-> SelectSeq(b, LAMBDA x : x < 128)]

\* data_section.decode('utf-8'): the code points, or ok = FALSE (UnicodeError).
\* Every byte is a lead byte followed by exactly the continuation bytes it
\* asks for; ASCII bytes decode to themselves.
Utf8Decode(b) ==
    IF \A i \in 1 .. Len(b) : b[i] < 128 THEN [ok |-> TRUE, text |-> b]
    ELSE
    LET leads == {i \in 1 .. Len(b) : ~IsContinuation(b[i])}
        wellFormed ==
            /\ \A i \in 1 .. Len(b) :
                 IsContinuation(b[i]) =>
                    \E l \in leads : l < i /\ i <= l + Utf8Need(b[l])
                                     /\ \A j \in (l + 1) .. i : IsContinuation(b[j])
            /\ \A l \in leads :
                 /\ Utf8Need(b[l]) >= 0
                 /\ l + Utf8Need(b[l]) <= Len(b)
                 /\ \A j \in (l + 1) .. (l + Utf8Need(b[l])) : IsContinuation(b[j])
    IN  IF wellFormed
        THEN [ok |-> TRUE,
              text |-> [k \in 1 .. Cardinality(leads) |-> CodePoint(b, Nth(leads, k))]]
        ELSE [ok |-> FALSE, text |-> << >>]

IsDigits(s) == Len(s) > 0 /\ \A i \in 1 .. Len(s) : s[i] \in 48 .. 57

RECURSIVE DigitsValue(_, _)
DigitsValue(s, acc) ==
    IF s = << >> THEN acc ELSE DigitsValue(Tail(s), acc * 10 + (Head(s) - 48))

\* int(s) for decimal text with an optional sign; ok = FALSE is ValueError.
PyIntOf(s) ==
    LET neg == Len(s) > 0 /\ s[1] = 45
        digits == IF neg THEN Tail(s) ELSE s
    IN  IF IsDigits(digits)
        THEN [ok |-> TRUE,
              v |-> IF neg THEN 0 - DigitsValue(digits, 0) ELSE DigitsValue(digits, 0)]
        ELSE [ok |-> FALSE, v |-> 0]

\* float(s) for decimal text [-]digits[.digits], as the exact fraction num/den
\* (den > 0); ok = FALSE is ValueError.
PyFloatOf(s) ==
    LET neg == Len(s) > 0 /\ s[1] = 45
        body == IF neg THEN Tail(s) ELSE s
        p == PyFind(body, <<Dot>>, 0)
        whole == IF p = -1 THEN body ELSE PySlice(body, 0, p)
        frac == IF p = -1 THEN << >> ELSE PySliceFrom(body, p + 1)
        digits == whole \o frac
        mag == DigitsValue(digits, 0)
    IN  IF IsDigits(digits)
        THEN [ok |-> TRUE, num |-> IF neg THEN 0 - mag ELSE mag,
              den |-> Pow(10, Len(frac))]
        ELSE [ok |-> FALSE, num |-> 0, den |-> 1]

-----------------------------------------------------------------------------
(* Python values of the results: the integer 0 that stands for "absent", *)
(* floats (exact fractions) and strings.                                  *)

PyInt(n) == [int |-> n]
PyFloat(n, d) == [num |-> n, den |-> d]
PyStr(s) == [str |-> s]

Absent == PyInt(0)
IsAbsent(v) == v = Absent
IsFloat(v) == DOMAIN v = {"num", "den"}
IsPositive(v) == IsFloat(v) /\ v.num > 0
IsNegative(v) == IsFloat(v) /\ v.num < 0

\* Python truth value of a result field.
Truthy(v) ==
    IF DOMAIN v = {"int"} THEN v.int # 0
    ELSE IF DOMAIN v = {"str"} THEN v.str # << >>
    ELSE v.num # 0

Return(v) == [kind |-> "return", value |-> v]
Raise(e) == [kind |-> "raise", exc |-> e]
NoResult == [kind |-> "none"]

\* list[i] exists (Python index, negative counts from the end).
HasItem(list, i) == IF i < 0 THEN Len(list) >= 0 - i ELSE Len(list) > i
Item(list, i) == IF i < 0 THEN list[Len(list) + i + 1] ELSE list[i + 1]

KeyGLL == <<71, 76, 76>>
KeyRMC == <<82, 77, 67>>
KeyGGA == <<71, 71, 65>>
KeyGSA == <<71, 83, 65>>
StatusA == <<65>>
North == <<78>>
South == <<83>>
East == <<69>>
West == <<87>>
Quality0 == <<48>>
Colon == 58

\* time_utc[:2] + ":" + time_utc[2:4] + ":" + time_utc[4:], or 0 when empty.
TimeStamp(time_utc) ==
    IF time_utc # << >>
    THEN PyStr(PySlice(time_utc, 0, 2) \o <<Colon>> \o PySlice(time_utc, 2, 4)
               \o <<Colon>> \o PySliceFrom(time_utc, 4))
    ELSE Absent

\* degrees + minutes/60 of a ddmm.mmmm field; ok = FALSE is ValueError.
DegreesMinutes(field) ==
    LET pos_minutes == PyFind(field, <<Dot>>, 0) - 2
        minutes == PyFloatOf(PySliceFrom(field, pos_minutes))
        degrees == PyIntOf(PySlice(field, 0, pos_minutes))
    IN  IF minutes.ok /\ degrees.ok
        THEN [ok |-> TRUE,
              num |-> degrees.v * (60 * minutes.den) + minutes.num,
              den |-> 60 * minutes.den]
        ELSE [ok |-> FALSE, num |-> 0, den |-> 1]

\* x or -1*x, by whether the hemisphere field equals the letter compared with.
Signed(x, hemisphere, letter) ==
    IF hemisphere = letter THEN PyFloat(x.num, x.den) ELSE PyFloat(0 - x.num, x.den)

-----------------------------------------------------------------------------
(* The read methods, after their call of _update_data: what they compute    *)
(* from the cache d.                                                        *)

Zero4 == <<Absent, Absent, Absent, Absent>>

NoFloat == [ok |-> FALSE, num |-> 0, den |-> 1]

\* position(), lines 130-152: the fix is valid and a GSA sentence is cached.
PositionFix(latv, lat_hemisphere, longv, long_hemisphere, hdop, time_stamp) ==
    IF ~latv.ok \/ ~longv.ok \/ ~hdop.ok THEN Raise("ValueError")
    ELSE Return(<<Signed(latv, lat_hemisphere, East),
                  Signed(longv, long_hemisphere, North),
                  PyFloat(hdop.num * 25, hdop.den * 10),
                  time_stamp>>)

\* position() with a plausible slip: the status flag is not looked at.
PositionIgnoresStatus(gll_sentence, time_stamp, d) ==
    IF KeyGSA \notin DOMAIN d THEN Return(<<Absent, Absent, Absent, time_stamp>>)
    ELSE IF ~HasItem(gll_sentence, 6) THEN Raise("IndexError")
    ELSE PositionFix(DegreesMinutes(Item(gll_sentence, 1)), Item(gll_sentence, 2),
                     DegreesMinutes(Item(gll_sentence, 3)), Item(gll_sentence, 4),
                     PyFloatOf(Item(PySplit(d[KeyGSA], Comma), -3)), time_stamp)

\* position() with a plausible slip: a missing GSA sentence costs only the
\* error estimate, and the coordinates of a valid fix are still returned.
PositionWithoutGsa(gll_sentence, time_stamp, d) ==
    IF ~HasItem(gll_sentence, 6) THEN Raise("IndexError")
    ELSE IF Item(gll_sentence, 6) # StatusA
    THEN Return(<<Absent, Absent, Absent, time_stamp>>)
    ELSE PositionFix(DegreesMinutes(Item(gll_sentence, 1)), Item(gll_sentence, 2),
                     DegreesMinutes(Item(gll_sentence, 3)), Item(gll_sentence, 4),
                     IF KeyGSA \in DOMAIN d
                     THEN PyFloatOf(Item(PySplit(d[KeyGSA], Comma), -3))
                     ELSE PyFloatOf(<<48>>),
                     time_stamp)

\* position(), lines 123-153.
PositionWith(gll_sentence, time_stamp, d) ==
    IF KeyGSA \notin DOMAIN d THEN Return(<<Absent, Absent, Absent, time_stamp>>)
    ELSE IF ~HasItem(gll_sentence, 6) THEN Raise("IndexError")
    ELSE IF Item(gll_sentence, 6) # StatusA
    THEN Return(<<Absent, Absent, Absent, time_stamp>>)
    ELSE PositionFix(DegreesMinutes(Item(gll_sentence, 1)), Item(gll_sentence, 2),
                     DegreesMinutes(Item(gll_sentence, 3)), Item(gll_sentence, 4),
                     PyFloatOf(Item(PySplit(d[KeyGSA], Comma), -3)), time_stamp)

\* position(), lines 117-153, on the fields of the cached GLL sentence.
PositionFields(gll_sentence, d) ==
    IF ~HasItem(gll_sentence, 5) THEN Raise("IndexError")
    ELSE PositionWith(gll_sentence, TimeStamp(Item(gll_sentence, 5)), d)

\* position(), lines 112-153.
PositionOf(d) ==
    IF KeyGLL \notin DOMAIN d THEN Return(Zero4)
    ELSE PositionFields(PySplit(d[KeyGLL], Comma), d)

Kn == <<75, 110>>
Degree == <<176>>
NotAvailable == <<78, 47, 65>>

\* velocity(), lines 175-190, on the fields of the cached RMC sentence.
VelocityFields(rmc_sentence) ==
    IF ~HasItem(rmc_sentence, 2) THEN Raise("IndexError")
    ELSE IF Item(rmc_sentence, 2) # StatusA
    THEN Return(<<Absent, Absent, TimeStamp(Item(rmc_sentence, 1))>>)
    ELSE IF ~HasItem(rmc_sentence, 8) THEN Raise("IndexError")
    ELSE Return(<<PyStr(Item(rmc_sentence, 7) \o Kn),
                  IF Item(rmc_sentence, 8) # << >>
                  THEN PyStr(Item(rmc_sentence, 8) \o Degree)
                  ELSE PyStr(NotAvailable),
                  TimeStamp(Item(rmc_sentence, 1))>>)

\* velocity(), lines 170-190.
VelocityOf(d) ==
    IF KeyRMC \notin DOMAIN d THEN Return(Zero4)
    ELSE VelocityFields(PySplit(d[KeyRMC], Comma))

\* altitude(), lines 225-232: the fix is valid and a GSA sentence is cached.
AltitudeFix(alt, geo_sep, vdop, time_stamp) ==
    IF ~vdop.ok \/ ~alt.ok \/ ~geo_sep.ok THEN Raise("ValueError")
    ELSE Return(<<PyFloat(alt.num, alt.den), PyFloat(geo_sep.num, geo_sep.den),
                  PyFloat(vdop.num * 5, vdop.den), time_stamp>>)

\* altitude(), lines 213-234, on the fields of the cached GGA sentence.
AltitudeFields(gga_sentence, time_stamp, d) ==
    IF KeyGSA \notin DOMAIN d THEN Return(<<Absent, Absent, Absent, time_stamp>>)
    ELSE IF ~HasItem(gga_sentence, 6) THEN Raise("IndexError")
    ELSE IF Item(gga_sentence, 6) = Quality0
    THEN Return(<<Absent, Absent, Absent, time_stamp>>)
    ELSE IF ~HasItem(gga_sentence, 11) THEN Raise("IndexError")
    ELSE AltitudeFix(PyFloatOf(Item(gga_sentence, 9)),
                     PyFloatOf(Item(gga_sentence, 11)),
                     PyFloatOf(Item(PySplit(d[KeyGSA], Comma), -2)), time_stamp)

AltitudeTimed(gga_sentence, d) ==
    IF ~HasItem(gga_sentence, 1) THEN Raise("IndexError")
    ELSE AltitudeFields(gga_sentence, TimeStamp(Item(gga_sentence, 1)), d)

\* altitude(), lines 208-234.
AltitudeOf(d) ==
    IF KeyGGA \notin DOMAIN d THEN Return(Zero4)
    ELSE AltitudeTimed(PySplit(d[KeyGGA], Comma), d)

\* getdata with a plausible slip: the timestamps are tried in the reverse
\* order.
LastTimestamp(timestamp_0, timestamp_1, timestamp_2) ==
    IF Truthy(timestamp_2) THEN timestamp_2
    ELSE IF Truthy(timestamp_1) THEN timestamp_1
    ELSE IF Truthy(timestamp_0) THEN timestamp_0
    ELSE Absent

\* The first truthy one of the three timestamps, else 0 (lines 255-262).
FirstTimestamp(timestamp_0, timestamp_1, timestamp_2) ==
    IF Truthy(timestamp_0) THEN timestamp_0
    ELSE IF Truthy(timestamp_1) THEN timestamp_1
    ELSE IF Truthy(timestamp_2) THEN timestamp_2
    ELSE Absent

\* getdata(), lines 250-264, from the outcomes p, v, a of position(),
\* velocity() and altitude(): they are unpacked into 4, 3 and 4 names, and a
\* tuple of another length raises ValueError.
GetDataFrom(p, v, a) ==
    IF p.kind = "raise" THEN p
    ELSE IF Len(p.value) # 4 THEN Raise("ValueError")
    ELSE IF v.kind = "raise" THEN v
    ELSE IF Len(v.value) # 3 THEN Raise("ValueError")
    ELSE IF a.kind = "raise" THEN a
    ELSE IF Len(a.value) # 4 THEN Raise("ValueError")
    ELSE Return(<<p.value[1], p.value[2], p.value[3], a.value[1], a.value[3],
                  v.value[1], v.value[2], a.value[2],
                  FirstTimestamp(p.value[4], v.value[3], a.value[4])>>)

GetDataOf(d) == GetDataFrom(PositionOf(d), VelocityOf(d), AltitudeOf(d))

-----------------------------------------------------------------------------
(* What the receiver sends: NMEA sentences, as the bytes on the wire.       *)

\* $GNGLL,5321.6729,N,00630.8302,W,092750.00,A,A*6F
GLL_NW ==
    <<36, 71, 78, 71, 76, 76, 44, 53, 51, 50, 49, 46, 54, 55, 50, 57,
      44, 78, 44, 48, 48, 54, 51, 48, 46, 56, 51, 48, 50, 44, 87, 44,
      48, 57, 50, 55, 53, 48, 46, 48, 48, 44, 65, 44, 65, 42, 54, 70,
      13, 10>>
\* $GNGLL,3351.0000,S,15112.0000,E,092751.00,A,A*60
GLL_SE ==
    <<36, 71, 78, 71, 76, 76, 44, 51, 51, 53, 49, 46, 48, 48, 48, 48,
      44, 83, 44, 49, 53, 49, 49, 50, 46, 48, 48, 48, 48, 44, 69, 44,
      48, 57, 50, 55, 53, 49, 46, 48, 48, 44, 65, 44, 65, 42, 54, 48,
      13, 10>>
\* $GNGLL,5321.6729,N,00630.8302,W,092752.00,V,N*75
GLL_V ==
    <<36, 71, 78, 71, 76, 76, 44, 53, 51, 50, 49, 46, 54, 55, 50, 57,
      44, 78, 44, 48, 48, 54, 51, 48, 46, 56, 51, 48, 50, 44, 87, 44,
      48, 57, 50, 55, 53, 50, 46, 48, 48, 44, 86, 44, 78, 42, 55, 53,
      13, 10>>
\* $GNRMC,092750.00,A,5321.6802,N,00630.3372,W,0.02,31.66,280511,,,A*6D
RMC_A ==
    <<36, 71, 78, 82, 77, 67, 44, 48, 57, 50, 55, 53, 48, 46, 48, 48,
      44, 65, 44, 53, 51, 50, 49, 46, 54, 56, 48, 50, 44, 78, 44, 48,
      48, 54, 51, 48, 46, 51, 51, 55, 50, 44, 87, 44, 48, 46, 48, 50,
      44, 51, 49, 46, 54, 54, 44, 50, 56, 48, 53, 49, 49, 44, 44, 44,
      65, 42, 54, 68, 13, 10>>
\* $GNRMC,092752.00,V,5321.6802,N,00630.3372,W,0.02,31.66,280511,,,N*77
RMC_V ==
    <<36, 71, 78, 82, 77, 67, 44, 48, 57, 50, 55, 53, 50, 46, 48, 48,
      44, 86, 44, 53, 51, 50, 49, 46, 54, 56, 48, 50, 44, 78, 44, 48,
      48, 54, 51, 48, 46, 51, 51, 55, 50, 44, 87, 44, 48, 46, 48, 50,
      44, 51, 49, 46, 54, 54, 44, 50, 56, 48, 53, 49, 49, 44, 44, 44,
      78, 42, 55, 55, 13, 10>>
\* $GNGGA,092750.00,5321.6802,N,00630.3372,W,1,08,1.03,61.7,M,55.2,M,,*68
GGA_1 ==
    <<36, 71, 78, 71, 71, 65, 44, 48, 57, 50, 55, 53, 48, 46, 48, 48,
      44, 53, 51, 50, 49, 46, 54, 56, 48, 50, 44, 78, 44, 48, 48, 54,
      51, 48, 46, 51, 51, 55, 50, 44, 87, 44, 49, 44, 48, 56, 44, 49,
      46, 48, 51, 44, 54, 49, 46, 55, 44, 77, 44, 53, 53, 46, 50, 44,
      77, 44, 44, 42, 54, 56, 13, 10>>
\* $GNGGA,092752.00,5321.6802,N,00630.3372,W,0,08,1.03,61.7,M,55.2,M,,*6B
GGA_0 ==
    <<36, 71, 78, 71, 71, 65, 44, 48, 57, 50, 55, 53, 50, 46, 48, 48,
      44, 53, 51, 50, 49, 46, 54, 56, 48, 50, 44, 78, 44, 48, 48, 54,
      51, 48, 46, 51, 51, 55, 50, 44, 87, 44, 48, 44, 48, 56, 44, 49,
      46, 48, 51, 44, 54, 49, 46, 55, 44, 77, 44, 53, 53, 46, 50, 44,
      77, 44, 44, 42, 54, 66, 13, 10>>
\* $GNGSA,A,3,10,07,05,02,29,04,08,13,,,,,1.72,1.03,1.38,1*09
GSA_3D ==
    <<36, 71, 78, 71, 83, 65, 44, 65, 44, 51, 44, 49, 48, 44, 48, 55,
      44, 48, 53, 44, 48, 50, 44, 50, 57, 44, 48, 52, 44, 48, 56, 44,
      49, 51, 44, 44, 44, 44, 44, 49, 46, 55, 50, 44, 49, 46, 48, 51,
      44, 49, 46, 51, 56, 44, 49, 42, 48, 57, 13, 10>>
\* $GNTXT,01,01,02,ANTSTATUS=OK*25
TXT_1 ==
    <<36, 71, 78, 84, 88, 84, 44, 48, 49, 44, 48, 49, 44, 48, 50, 44,
      65, 78, 84, 83, 84, 65, 84, 85, 83, 61, 79, 75, 42, 50, 53, 13,
      10>>
\* $GNTXT,01,01,02,ANTSTATUS=INIT*3B
TXT_2 ==
    <<36, 71, 78, 84, 88, 84, 44, 48, 49, 44, 48, 49, 44, 48, 50, 44,
      65, 78, 84, 83, 84, 65, 84, 85, 83, 61, 73, 78, 73, 84, 42, 51,
      66, 13, 10>>
\* $GNGLL,5321.6729,N,00630.8302,W,092753.00,A,A*7D
GLL_BAD ==
    <<36, 71, 78, 71, 76, 76, 44, 53, 51, 50, 49, 46, 54, 55, 50, 57,
      44, 78, 44, 48, 48, 54, 51, 48, 46, 56, 51, 48, 50, 44, 87, 44,
      48, 57, 50, 55, 53, 51, 46, 48, 48, 44, 65, 44, 65, 42, 55, 68,
      13, 10>>

\* One navigation epoch with a fix, one without, and the start-up notices.
\* $GNGLL,,,,,092754.00,V,N*59
GLL_VE ==
    <<36, 71, 78, 71, 76, 76, 44, 44, 44, 44, 44, 48, 57, 50, 55, 53,
      52, 46, 48, 48, 44, 86, 44, 78, 42, 53, 57, 13, 10>>

EpochFix == RMC_A \o GGA_1 \o GSA_3D \o GLL_NW
EpochNoFix == RMC_V \o GGA_0 \o GSA_3D \o GLL_V
Notices == TXT_1 \o TXT_2

\* A sentence cut in two by the read boundary.
CutAt == 20
TXT_head == SubSeq(TXT_2, 1, CutAt)
TXT_tail == SubSeq(TXT_2, CutAt + 1, Len(TXT_2))

\* A notice whose checksum is right and whose text is not UTF-8: $GNTXT,\xff*82
TXT_RAW == <<36, 71, 78, 84, 88, 84, 44, 255, 42, 56, 50, 13, 10>>

\* A record that fails its checksum, a no-fix sentence with its fields empty,
\* a fix, a record that is not text, and the head of the cut sentence.
Mixed == GLL_BAD \o GLL_VE \o GLL_SE \o TXT_RAW \o TXT_head

\* What one self.gps.read() can return.
Chunks == {EpochFix, EpochNoFix, Notices, Mixed, TXT_tail}

\* The well-formed sentences among them.
Sentences == {GLL_NW, GLL_SE, GLL_V, GLL_VE, RMC_A, RMC_V, GGA_1, GGA_0, GSA_3D, TXT_1, TXT_2}

MaxReads == 3

-----------------------------------------------------------------------------
(* The sentence buffer and the cache *)

\* The loop bound with a plausible slip: "< 4" for "< 5".
SentencesPerCallShort == 5 - 1

BufferCap == 512
SentencesPerCall == 5

\* update_buffer with a plausible slip: the slice [:512] keeps the oldest bytes.
UpdateBufferKeepsOldest(buffer, chunk) ==
    IF chunk # << >>
    THEN PySlice(buffer \o chunk, 0, BufferCap)
    ELSE buffer

\* update_buffer(), lines 63-68; chunk is what self.gps.read() returns and is
\* empty when self.gps.any() is false.
UpdateBufferOf(buffer, chunk) ==
    IF chunk # << >>
    THEN LET appended == buffer \o chunk
             length == Len(appended)
         IN  IF length > BufferCap
             THEN PySliceFrom(appended, length - BufferCap)
             ELSE appended
    ELSE buffer

\* The extraction with a plausible slip: the buffer is cut at end_pos, so the
\* line feed stays in it.
ExtractLeavesTerminator(buffer) ==
    LET start_pos == PyFind(buffer, <<Dollar>>, 0)
        end_pos == PyFind(buffer, <<LineFeed>>, start_pos)
    IN  IF start_pos = -1 \/ end_pos = -1
        THEN [found |-> FALSE, record |-> << >>, rest |-> buffer]
        ELSE [found |-> TRUE,
              record |-> PySlice(buffer, start_pos, end_pos + 1),
              rest |-> PySliceFrom(buffer, end_pos)]

\* The extraction with a plausible slip: the line feed is looked for from the
\* start of the buffer and not from the '$'.
ExtractFirstLineFeed(buffer) ==
    LET start_pos == PyFind(buffer, <<Dollar>>, 0)
        end_pos == PyFind(buffer, <<LineFeed>>, 0)
    IN  IF start_pos = -1 \/ end_pos = -1
        THEN [found |-> FALSE, record |-> << >>, rest |-> buffer]
        ELSE [found |-> TRUE,
              record |-> PySlice(buffer, start_pos, end_pos + 1),
              rest |-> PySliceFrom(buffer, end_pos + 1)]

\* Lines 79-86: one extraction from the buffer.
ExtractNext(buffer) ==
    LET start_pos == PyFind(buffer, <<Dollar>>, 0)
        end_pos == PyFind(buffer, <<LineFeed>>, start_pos)
    IN  IF start_pos = -1 \/ end_pos = -1
        THEN [found |-> FALSE, record |-> << >>, rest |-> buffer]
        ELSE [found |-> TRUE,
              record |-> PySlice(buffer, start_pos, end_pos + 1),
              rest |-> PySliceFrom(buffer, end_pos + 1)]

\* sentence_header = data_section[3:6]
SentenceHeader(text) == PySlice(text, 3, 6)

\* The store with a plausible slip: an entry already there is kept.
StoreFirstWins(d, text) ==
    LET sentence_header == SentenceHeader(text)
    IN  [k \in DOMAIN d \cup {sentence_header} |->
            IF k \in DOMAIN d THEN d[k] ELSE text]

\* self.data[sentence_header] = data_section
Store(d, text) ==
    LET sentence_header == SentenceHeader(text)
    IN  [k \in DOMAIN d \cup {sentence_header} |->
            IF k = sentence_header THEN text ELSE d[k]]

EmptyCache == [k \in {} |-> << >>]

NoArg == [kind |-> "none"]

Methods == {"position", "velocity", "altitude", "getdata"}

\* What the method computes once _update_data has returned.
Compute(method, d) ==
    CASE method = "position" -> PositionOf(d)
      [] method = "velocity" -> VelocityOf(d)
      [] method = "altitude" -> AltitudeOf(d)
      [] method = "getdata" -> GetDataOf(d)

-----------------------------------------------------------------------------
(* The driver as a state machine *)

cfgVars == <<ackdata, tx, sent, outcomes, acked, step, count, flag, ticks>>

Init ==
    /\ background_buffer = << >>
    /\ data = EmptyCache
    /\ ackdata = << >>
    /\ tx = << >>
    /\ sent = 0
    /\ outcomes = << >>
    /\ acked = {}
    /\ pc = "idle"
    /\ op = "none"
    /\ sentences_read = 0
    /\ result = NoResult
    /\ last_read = << >>
    /\ reads = 0
    /\ data_section = << >>
    /\ step = 0
    /\ count = 0
    /\ flag = "unset"
    /\ ticks = 0
    /\ arg = NoArg

\* The transport: what the next self.gps.read() may return (empty: any() is
\* false and nothing is read).
Offered == IF reads < MaxReads THEN Chunks \cup {<< >>} ELSE {<< >>}

Receive(chunk) ==
    /\ background_buffer' = UpdateBufferOf(background_buffer, chunk)
    /\ last_read' = IF chunk # << >> THEN chunk ELSE last_read
    /\ reads' = IF chunk # << >> THEN reads + 1 ELSE reads

\* update_buffer() called by the application.
update_buffer ==
    /\ pc = "idle"
    /\ \E chunk \in Offered : Receive(chunk)
    /\ UNCHANGED <<data, pc, op, sentences_read, result, data_section, arg>>
    /\ UNCHANGED cfgVars

\* position(), velocity(), altitude() or getdata() is called; with
\* data_needs_updating false, velocity() and altitude() return at once.
Call ==
    /\ pc = "idle"
    /\ \E method \in Methods, data_needs_updating \in BOOLEAN :
        /\ data_needs_updating \/ method \in {"velocity", "altitude"}
        /\ op' = method
        /\ IF data_needs_updating
           THEN /\ pc' = "outer"
                /\ result' = NoResult
           ELSE /\ pc' = "idle"
                /\ result' = Compute(method, data)
    /\ sentences_read' = 0
    /\ data_section' = << >>
    /\ UNCHANGED <<background_buffer, data, last_read, reads, arg>>
    /\ UNCHANGED cfgVars

\* _update_data, lines 75-76: the outer loop calls update_buffer().
OuterStep ==
    /\ pc = "outer"
    /\ \E chunk \in Offered : Receive(chunk)
    /\ pc' = "inner"
    /\ UNCHANGED <<data, op, sentences_read, result, data_section, arg>>
    /\ UNCHANGED cfgVars

\* _update_data, lines 78-96: one pass of the inner loop; on the fifth stored
\* sentence both loops end and the method computes its result.
InnerStep ==
    /\ pc = "inner"
    /\ LET e == ExtractNext(background_buffer)
           valid == _checksum(e.record)
           dec == Utf8Decode(e.record)
       IN  IF ~e.found
           THEN /\ pc' = "outer"
                /\ UNCHANGED <<background_buffer, data, sentences_read, result,
                               data_section>>
           ELSE /\ background_buffer' = e.rest
                /\ IF ~valid
                   THEN /\ pc' = "inner"
                        /\ data_section' = e.record
                        /\ UNCHANGED <<data, sentences_read, result>>
                   ELSE IF ~dec.ok
                   THEN /\ pc' = "outer"
                        /\ data_section' = e.record
                        /\ UNCHANGED <<data, sentences_read, result>>
                   ELSE /\ data_section' = dec.text
                        /\ data' = Store(data, dec.text)
                        /\ sentences_read' = sentences_read + 1
                        /\ IF sentences_read + 1 < SentencesPerCall
                           THEN /\ pc' = "inner"
                                /\ UNCHANGED result
                           ELSE /\ pc' = "idle"
                                /\ result' = Compute(op, Store(data, dec.text))
    /\ UNCHANGED <<op, last_read, reads, arg>>
    /\ UNCHANGED cfgVars

Next == update_buffer \/ Call \/ OuterStep \/ InnerStep

Spec == Init /\ [][Next]_vars

\* The transport hands over what it has: an update_buffer() of the outer loop
\* that reads something.
Delivers == OuterStep /\ reads' # reads

\* The loops of _update_data keep running, and a transport that has bytes to
\* give does not withhold them for ever.  The inner loop is not stalled: a
\* pass of it is possible exactly when pc = "inner", and a pass that stays in
\* the loop has cut a record out of the buffer (line 86), so a running inner
\* loop is one that is left again and again.
SpecFair ==
    /\ Init
    /\ [][Next]_vars
    /\ WF_vars(OuterStep)
    /\ SF_vars(Delivers)
    /\ []<>(pc # "inner")

-----------------------------------------------------------------------------
(* Configuration: the UBX packets and the acknowledged commands *)

UbxHeader == <<181, 98>>

\* line 365
CfgMsgPacket ==
    <<181, 98, 6, 1, 3, 0, 240, 5, 0, 255, 25>>
\* line 380: class, id, length and payload
Nav5Body ==
    <<6, 36, 36, 0, 71, 8, 8, 2, 0, 0, 0, 0, 0, 0, 0, 0,
      20, 0, 0, 0, 0, 0, 0, 0, 0, 0, 20, 0, 0, 0, 0, 1,
      0, 0, 0, 0, 0, 0, 0, 0>>
\* line 400: class, id, length and payload
Navx5Body ==
    <<6, 35, 40, 0, 0, 0, 68, 64, 0, 0, 0, 0, 0, 0, 4, 60,
      0, 0, 1, 0, 0, 0, 0, 0, 0, 0, 0, 0, 0, 0, 1, 0,
      0, 20, 0, 0, 0, 0, 0, 0, 0, 0, 0, 0>>
\* line 418: class, id, length and payload
GnssBody ==
    <<6, 62, 44, 0, 0, 0, 255, 5, 0, 8, 16, 0, 0, 1, 0, 1,
      1, 1, 3, 0, 0, 1, 0, 1, 2, 2, 8, 0, 0, 1, 0, 1,
      3, 8, 14, 0, 0, 1, 0, 1, 6, 6, 14, 0, 0, 1, 0, 1>>
\* line 440: class, id, length and payload
ItfmBody ==
    <<6, 57, 8, 0, 173, 98, 173, 71, 0, 0, 35, 30>>
\* line 460: class, id, length and payload
CfgCfgBody ==
    <<6, 9, 13, 0, 0, 0, 0, 0, 0, 0, 0, 26, 0, 0, 0, 0,
      2>>
\* line 479: class, id, length and payload
ResetBody ==
    <<6, 4, 4, 0, 255, 255, 0, 0>>
\* line 291: class, id, length and payload
GnssStopBody ==
    <<6, 4, 4, 0, 0, 0, 8, 0>>
\* line 304: class, id, length and payload
GnssStartBody ==
    <<6, 4, 4, 0, 0, 0, 9, 0>>

\* The framing with a plausible slip: the checksum runs over the header too.
FramedOverHeader(body) == UbxHeader \o body \o _ubx_checksum(UbxHeader \o body)

\* packet = b'\xb5\x62' + packet + ck_a + ck_b
Framed(body) == UbxHeader \o body \o _ubx_checksum(body)

\* struct.pack("<H", v) for v in 0..65535.
PackU16(v) == <<v % 256, v \div 256>>

\* setrate(), lines 321-332: the packet for a rate in Hz (a positive integer,
\* so that int(1000/rate) is the integer quotient).
RatePacket(rate, measurements_per_nav_solution) ==
    Framed(<<6, 8, 6, 0>> \o PackU16(1000 \div rate)
           \o PackU16(measurements_per_nav_solution) \o <<0, 0>>)

Steps == 6
RetryBound == 5

\* The packet of modulesetup's k-th acknowledged step.
StepPacket(k) ==
    CASE k = 1 -> CfgMsgPacket
      [] k = 2 -> Framed(Nav5Body)
      [] k = 3 -> Framed(Navx5Body)
      [] k = 4 -> Framed(GnssBody)
      [] k = 5 -> Framed(ItfmBody)
      [] k = 6 -> Framed(CfgCfgBody)

PyTrue == [const |-> "True"]
PyFalse == [const |-> "False"]
PyNone == [const |-> "None"]

AckMarker == <<181, 98, 5, 1>>
NackMarker == <<181, 98, 5, 0>>

\* The scan with a plausible slip: the markers carry the class of the
\* commands (0x06) where the replies carry 0x05, so no reply is recognised.
AckOutcomeWrongClass(received) ==
    IF PyFind(received, <<181, 98, 6, 1>>, 0) # -1 THEN "True"
    ELSE IF PyFind(received, <<181, 98, 6, 0>>, 0) # -1 THEN "False"
    ELSE "continue"

\* _ubx_ack_nack, lines 274-280: the outcome read off the accumulated bytes;
\* "continue" when neither marker is there.
AckOutcome(received) ==
    LET index_ack == PyFind(received, AckMarker, 0)
        index_nack == PyFind(received, NackMarker, 0)
    IN  IF index_ack # -1 THEN "True"
        ELSE IF index_nack # -1 THEN "False"
        ELSE "continue"

\* The receiver's UBX-ACK-ACK (kind 1) or UBX-ACK-NAK (kind 0) for a command.
UbxReply(kind, class, id) == Framed(<<5, kind, 2, 0, class, id>>)

\* Number of passes of the wait loop that fit before the one-second deadline.
AckPolls == 2

\* What one self.gps.read() can return while the acknowledgment of packet is
\* awaited: the reply, whole or cut in two, a reply to another command, a
\* nack followed by an ack, or a sentence.
AckChunks(packet) ==
    LET ack == UbxReply(1, packet[3], packet[4])
        nack == UbxReply(0, packet[3], packet[4])
    IN  {ack, nack, SubSeq(ack, 1, 3), SubSeq(ack, 4, Len(ack)),
         UbxReply(1, 6, 0), nack \o ack, TXT_1}

readVars == <<background_buffer, data, sentences_read, reads, data_section>>

\* The start of the wait with a plausible slip: the scratch starts from what
\* the sentence buffer holds.
BeginWaitFromBuffer ==
    /\ ackdata' = background_buffer
    /\ ticks' = 0
    /\ pc' = "ack"

\* The wait of _ubx_ack_nack begins: lines 267-268.
BeginWait ==
    /\ ackdata' = << >>
    /\ ticks' = 0
    /\ pc' = "ack"

\* The locals of modulesetup exist only in its call.
NoSetupLocals ==
    /\ step' = 0
    /\ count' = 0
    /\ flag' = "unset"
    /\ outcomes' = << >>
    /\ acked' = {}

\* modulesetup() is called: lines 363-366.
modulesetup ==
    /\ pc = "idle"
    /\ op' = "modulesetup"
    /\ step' = 1
    /\ count' = 0
    /\ flag' = "unset"
    /\ outcomes' = << >>
    /\ acked' = {}
    /\ tx' = <<StepPacket(1)>>
    /\ sent' = 1
    /\ result' = NoResult
    /\ BeginWait
    /\ UNCHANGED <<last_read, arg>>
    /\ UNCHANGED readVars

Rates == {1, 2, 5, 10}
Measurements == {1, 3}

\* setrate(rate, measurements_per_nav_solution) is called: lines 321-337.
setrate ==
    /\ pc = "idle"
    /\ \E rate \in Rates, m \in Measurements : tx' = <<RatePacket(rate, m)>>
    /\ sent' = 1
    /\ op' = "setrate"
    /\ result' = NoResult
    /\ BeginWait
    /\ NoSetupLocals
    /\ UNCHANGED <<last_read, arg>>
    /\ UNCHANGED readVars

\* gnss_stop() or gnss_start(): one packet is written, nothing is awaited.
gnss_stop ==
    /\ pc = "idle"
    /\ op' = "gnss_stop"
    /\ tx' = <<Framed(GnssStopBody)>>
    /\ sent' = 1
    /\ result' = Return(PyNone)
    /\ ticks' = 0
    /\ NoSetupLocals
    /\ UNCHANGED <<ackdata, pc, last_read, arg>>
    /\ UNCHANGED readVars

gnss_start ==
    /\ pc = "idle"
    /\ op' = "gnss_start"
    /\ tx' = <<Framed(GnssStartBody)>>
    /\ sent' = 1
    /\ result' = Return(PyNone)
    /\ ticks' = 0
    /\ NoSetupLocals
    /\ UNCHANGED <<ackdata, pc, last_read, arg>>
    /\ UNCHANGED readVars

\* The loop test with a plausible slip: one retry fewer.
RetryLeavesEarly(f, c) == f # "True" /\ c < RetryBound - 1

\* Line 367 (and 387, 407, 426, 447, 467): while not flag and count < 5
ShouldRetry(f, c) == f # "True" /\ c < RetryBound

\* The test of line 373 with a plausible slip: "flag is False" for "not flag".
AbandonsOnlyNack(f, c) == c = RetryBound /\ f = "False"

\* Line 373 (and 393, 413, 432, 453, 473): if count == 5 and not flag
Abandons(f, c) == c = RetryBound /\ f # "True"

\* The wait is over with outcome, and modulesetup goes on to its next wait or
\* to its return: the retry loop (lines 367-374) and what follows the step.
AfterWaitSetup(outcome, received) ==
    /\ flag' = outcome
    /\ acked' = IF outcome = "True" THEN acked \cup {step} ELSE acked
    /\ IF ShouldRetry(outcome, count)
       THEN /\ count' = count + 1
            /\ sent' = sent + 1
            /\ outcomes' = Append(outcomes, outcome)
            /\ BeginWait
            /\ UNCHANGED <<step, tx, result>>
       ELSE IF Abandons(outcome, count)
       THEN /\ pc' = "idle"
            /\ outcomes' = Append(outcomes, outcome)
            /\ result' = Return(PyNone)
            /\ ackdata' = received
            /\ UNCHANGED <<step, count, tx, sent, ticks>>
       ELSE IF step < Steps
       THEN /\ step' = step + 1
            /\ count' = 0
            /\ outcomes' = << >>
            /\ tx' = IF step = 4
                     THEN tx \o <<Framed(GnssStartBody), StepPacket(step + 1)>>
                     ELSE Append(tx, StepPacket(step + 1))
            /\ sent' = 1
            /\ BeginWait
            /\ UNCHANGED result
       ELSE /\ count' = 0
            /\ outcomes' = Append(outcomes, outcome)
            /\ tx' = Append(tx, Framed(ResetBody))
            /\ sent' = 1
            /\ pc' = "idle"
            /\ result' = Return(PyTrue)
            /\ ackdata' = received
            /\ UNCHANGED <<step, ticks>>

\* setrate returns what the wait returned (line 337).
AfterWaitRate(outcome, received) ==
    /\ pc' = "idle"
    /\ result' = Return([const |-> outcome])
    /\ ackdata' = received
    /\ UNCHANGED <<step, count, flag, tx, sent, outcomes, acked, ticks>>

AfterWait(outcome, received) ==
    IF op = "modulesetup" THEN AfterWaitSetup(outcome, received)
    ELSE AfterWaitRate(outcome, received)

\* The pass with a plausible slip: "self.ackdata = self.gps.read()", so that
\* only the last read is searched.
AckWaitPollLastRead ==
    /\ pc = "ack"
    /\ ticks < AckPolls
    /\ \E chunk \in AckChunks(tx[Len(tx)]) \cup {<< >>} :
        LET outcome == IF chunk = << >> THEN "continue" ELSE AckOutcome(chunk)
        IN  IF outcome = "continue"
            THEN /\ ackdata' = (IF chunk = << >> THEN ackdata ELSE chunk)
                 /\ ticks' = ticks + 1
                 /\ UNCHANGED <<pc, step, count, flag, tx, sent, outcomes, acked,
                                result>>
            ELSE AfterWait(outcome, chunk)
    /\ UNCHANGED <<op, last_read, arg>>
    /\ UNCHANGED readVars

\* _ubx_ack_nack, lines 270-280: one pass of the loop before the deadline.
\* An empty chunk: self.gps.any() is false.
AckWaitPoll ==
    /\ pc = "ack"
    /\ ticks < AckPolls
    /\ \E chunk \in AckChunks(tx[Len(tx)]) \cup {<< >>} :
        LET received == ackdata \o chunk
            outcome == IF chunk = << >> THEN "continue" ELSE AckOutcome(received)
        IN  IF outcome = "continue"
            THEN /\ ackdata' = received
                 /\ ticks' = ticks + 1
                 /\ UNCHANGED <<pc, step, count, flag, tx, sent, outcomes, acked,
                                result>>
            ELSE AfterWait(outcome, received)
    /\ UNCHANGED <<op, last_read, arg>>
    /\ UNCHANGED readVars

\* _ubx_ack_nack, line 281: the deadline has passed.
AckWaitTimeout ==
    /\ pc = "ack"
    /\ ticks >= AckPolls
    /\ AfterWait("None", ackdata)
    /\ UNCHANGED <<op, last_read, arg>>
    /\ UNCHANGED readVars

SetupNext ==
    modulesetup \/ setrate \/ gnss_stop \/ gnss_start \/ AckWaitPoll \/ AckWaitTimeout

SpecSetup == Init /\ [][SetupNext]_vars

\* _ubx_ack_nack, lines 270-271 with self.gps.any() false: the pass of the
\* loop in which nothing is read and only the clock moves on (AckWaitPoll with
\* the empty chunk).
AckWaitQuiet ==
    /\ pc = "ack"
    /\ ticks < AckPolls
    /\ ticks' = ticks + 1
    /\ UNCHANGED <<ackdata, pc, step, count, flag, tx, sent, outcomes, acked, result>>
    /\ UNCHANGED <<op, last_read, arg>>
    /\ UNCHANGED readVars

\* The wait loop of _ubx_ack_nack keeps running: time.time_ns() does not stand
\* still before the deadline, and the loop test of line 270 is taken once the
\* deadline has passed.
SpecSetupFair ==
    /\ Init
    /\ [][SetupNext]_vars
    /\ WF_vars(AckWaitQuiet)
    /\ WF_vars(AckWaitTimeout)

-----------------------------------------------------------------------------
(* The two streams of the one transport: update_buffer() called between and  *)
(* after waits of setrate().                                                 *)

SharedNext == update_buffer \/ setrate \/ AckWaitPoll \/ AckWaitTimeout

SpecShared == Init /\ [][SharedNext]_vars

-----------------------------------------------------------------------------
(* _checksum on its own: one call per behaviour, on a record with a right    *)
(* checksum or on such a record with one byte of the body replaced.          *)

MaxBodyLen == 2
BodyAlphabet == {0, 36, 44, 65, 200}

RECURSIVE BodiesUpTo(_)
BodiesUpTo(n) ==
    IF n = 0 THEN {<< >>}
    ELSE LET shorter == BodiesUpTo(n - 1)
         IN  shorter \cup {Append(b, c) : b \in shorter, c \in BodyAlphabet}

\* '$' + body + '*' + HH + "\r\n" with HH the upper-case hex of the XOR of body.
NmeaRecord(body) ==
    <<Dollar>> \o body \o <<Star>> \o Format02X(XorAll(body))
        \o <<13, LineFeed>>

IntactRecords ==
    {GLL_NW, GSA_3D, TXT_1} \cup {NmeaRecord(b) : b \in BodiesUpTo(MaxBodyLen)}

\* 1-based positions of the bytes strictly between '$' and '*'.
BodyPositions(record) == 2 .. PyFind(record, <<Star>>, 0)

PyBool(b) == IF b THEN PyTrue ELSE PyFalse

\* _checksum(record) is called on a record whose checksum is right.
ChecksumIntact ==
    /\ pc = "idle"
    /\ arg = NoArg
    /\ \E r \in IntactRecords :
        /\ arg' = [kind |-> "intact", record |-> r]
        /\ result' = Return(PyBool(_checksum(r)))
    /\ op' = "_checksum"
    /\ UNCHANGED <<pc, last_read>>
    /\ UNCHANGED readVars
    /\ UNCHANGED cfgVars

\* _checksum(record) is called on such a record with one body byte replaced
\* by a different byte that is not '*'.
ChecksumReplaced ==
    /\ pc = "idle"
    /\ arg = NoArg
    /\ \E r \in IntactRecords :
        \E i \in BodyPositions(r), b \in (0 .. 255) \ {Star} :
            /\ b # r[i]
            /\ arg' = [kind |-> "replaced", record |-> [r EXCEPT ![i] = b]]
            /\ result' = Return(PyBool(_checksum([r EXCEPT ![i] = b])))
    /\ op' = "_checksum"
    /\ UNCHANGED <<pc, last_read>>
    /\ UNCHANGED readVars
    /\ UNCHANGED cfgVars

ChecksumNext == ChecksumIntact \/ ChecksumReplaced

SpecChecksum == Init /\ [][ChecksumNext]_vars

-----------------------------------------------------------------------------
(* The read methods on one batch of sentences *)

\* $GNGLL,5321.6729,N,00630.8302,W,,A,A*48
GLL_NT ==
    <<36, 71, 78, 71, 76, 76, 44, 53, 51, 50, 49, 46, 54, 55, 50, 57,
      44, 78, 44, 48, 48, 54, 51, 48, 46, 56, 51, 48, 50, 44, 87, 44,
      44, 65, 44, 65, 42, 52, 56, 13, 10>>

\* $GNRMC,,V,,,,,,,,,,N*4D
RMC_NT ==
    <<36, 71, 78, 82, 77, 67, 44, 44, 86, 44, 44, 44, 44, 44, 44, 44,
      44, 44, 44, 78, 42, 52, 68, 13, 10>>

\* $GNGGA,,,,,,0,00,99.99,,,,,,*56
GGA_NT ==
    <<36, 71, 78, 71, 71, 65, 44, 44, 44, 44, 44, 44, 48, 44, 48, 48,
      44, 57, 57, 46, 57, 57, 44, 44, 44, 44, 44, 44, 42, 53, 54, 13,
      10>>

\* $GNGGA,235959,5321.6802,N,00630.3372,W,1,08,1.03,61.7,M,55.2,M,,*4E
GGA_HMS ==
    <<36, 71, 78, 71, 71, 65, 44, 50, 51, 53, 57, 53, 57, 44, 53, 51,
      50, 49, 46, 54, 56, 48, 50, 44, 78, 44, 48, 48, 54, 51, 48, 46,
      51, 51, 55, 50, 44, 87, 44, 49, 44, 48, 56, 44, 49, 46, 48, 51,
      44, 54, 49, 46, 55, 44, 77, 44, 53, 53, 46, 50, 44, 77, 44, 44,
      42, 52, 69, 13, 10>>

\* What the receiver can send for each kind in one batch; TXT_2 stands for
\* "no sentence of this kind".
GllChoices == {GLL_SE, GLL_NT, TXT_2}
RmcChoices == {RMC_A, RMC_NT, TXT_2}
GgaChoices == {GGA_0, GGA_NT, GGA_HMS, TXT_2}
GsaChoices == {GSA_3D, TXT_2}

\* The inner loop of _update_data (lines 78-96) on a buffer that holds n valid
\* text sentences: the cache after they are stored.
RECURSIVE Filed(_, _, _)
FiledOne(e, d, n) == Filed(e.rest, Store(d, Utf8Decode(e.record).text), n - 1)
Filed(buffer, d, n) == IF n = 0 THEN d ELSE FiledOne(ExtractNext(buffer), d, n)

\* A read method is called on the empty cache and the first read returns a
\* batch of five sentences: _update_data stores the five and the method
\* computes its result.
ReadBatch(method, batch) ==
    /\ op' = method
    /\ last_read' = batch
    /\ reads' = 1
    /\ background_buffer' = << >>
    /\ sentences_read' = SentencesPerCall
    /\ data_section' = TXT_1
    /\ data' = Filed(UpdateBufferOf(background_buffer, batch), data, SentencesPerCall)
    /\ result' = Compute(method, Filed(UpdateBufferOf(background_buffer, batch), data,
                                       SentencesPerCall))
    /\ arg' = [kind |-> "batch"]

DecodeCall ==
    /\ pc = "idle"
    /\ arg = NoArg
    /\ \E method \in Methods, gll \in GllChoices, rmc \in RmcChoices,
          gga \in GgaChoices, gsa \in GsaChoices :
            ReadBatch(method, gll \o rmc \o gga \o gsa \o TXT_1)
    /\ UNCHANGED pc
    /\ UNCHANGED cfgVars

DecodeNext == DecodeCall

SpecDecode == Init /\ [][DecodeNext]_vars

-----------------------------------------------------------------------------
(* The two checksum functions on arbitrary input *)

MaxPacketLen == 3
PacketAlphabet == {0, 1, 127, 128, 255}

RECURSIVE PacketsUpTo(_)
PacketsUpTo(n) ==
    IF n = 0 THEN {<< >>}
    ELSE LET shorter == PacketsUpTo(n - 1)
         IN  shorter \cup {Append(b, c) : b \in shorter, c \in PacketAlphabet}

\* The rate command of 4 Hz, one measurement per solution.
RateBody == <<6, 8, 6, 0, 250, 0, 1, 0, 0, 0>>

\* What _ubx_checksum is called on: the bodies the driver frames, and short
\* byte strings.
UbxInputs ==
    PacketsUpTo(MaxPacketLen)
        \cup {Nav5Body, Navx5Body, GnssBody, ItfmBody, CfgCfgBody, ResetBody,
              GnssStopBody, GnssStartBody, RateBody}

\* _ubx_checksum(ubx_packet) is called.
UbxChecksumCall ==
    /\ pc = "idle"
    /\ arg = NoArg
    /\ \E packet \in UbxInputs :
        /\ arg' = [kind |-> "ubx", packet |-> packet]
        /\ result' = Return(_ubx_checksum(packet))
    /\ op' = "_ubx_checksum"
    /\ UNCHANGED <<pc, last_read>>
    /\ UNCHANGED readVars
    /\ UNCHANGED cfgVars

MalformedAlphabet == {13, 36, 48, 52, 65}

\* The bodies of up to two bytes, none of them '*' or a line feed.
MalformedBodies ==
    {<< >>} \cup {<<c>> : c \in MalformedAlphabet}
        \cup {<<c, e>> : c \in MalformedAlphabet, e \in MalformedAlphabet}

\* Records as the extraction hands them over ('$' first, line feed last)
\* without a '*'.
RecordsNoStar == {<<Dollar>> \o b \o <<LineFeed>> : b \in MalformedBodies}

\* Such records with a '*' and at most one byte between it and the line feed.
RecordsCutShort ==
    {<<Dollar>> \o b \o <<Star>> \o t \o <<LineFeed>> :
        b \in MalformedBodies,
        t \in {<< >>} \cup {<<c>> : c \in MalformedAlphabet}}

\* _checksum(record) is called on a record without its '*' or without the two
\* checksum bytes.
ChecksumMalformed ==
    /\ pc = "idle"
    /\ arg = NoArg
    /\ \E r \in RecordsNoStar \cup RecordsCutShort :
        /\ arg' = [kind |-> "malformed", record |-> r]
        /\ result' = Return(PyBool(_checksum(r)))
    /\ op' = "_checksum"
    /\ UNCHANGED <<pc, last_read>>
    /\ UNCHANGED readVars
    /\ UNCHANGED cfgVars

FunctionsNext == UbxChecksumCall \/ ChecksumMalformed

SpecFunctions == Init /\ [][FunctionsNext]_vars

-----------------------------------------------------------------------------
(* Properties *)

Finished(method) == pc = "idle" /\ op = method
Returned(method) == Finished(method) /\ result.kind = "return"

GllFields == PySplit(data[KeyGLL], Comma)
RmcFields == PySplit(data[KeyRMC], Comma)
GgaFields == PySplit(data[KeyGGA], Comma)

\* position() has returned with a valid GLL fix and a GSA sentence cached.
PositionOfFix ==
    /\ Returned("position")
    /\ KeyGLL \in DOMAIN data
    /\ KeyGSA \in DOMAIN data
    /\ Item(GllFields, 6) = StatusA

\* C1: whenever position() returns with a cached GLL sentence of status 'A'
\* and a cached GSA sentence, the latitude is positive for hemisphere 'N' and
\* negative for 'S', and the longitude is positive for 'E' and negative for
\* 'W'.
C1_SignConvention ==
    PositionOfFix =>
        /\ Item(GllFields, 2) = North => IsPositive(result.value[1])
        /\ Item(GllFields, 2) = South => IsNegative(result.value[1])
        /\ Item(GllFields, 4) = East => IsPositive(result.value[2])
        /\ Item(GllFields, 4) = West => IsNegative(result.value[2])

\* C2: position(), velocity(), altitude() and getdata() return a result and
\* never raise, whichever of the kinds GLL, RMC, GGA and GSA are cached.
C2_NeverRaises ==
    (pc = "idle" /\ op \in Methods) => result.kind = "return"

AllUnknown(os) == \A i \in 1 .. Len(os) : os[i] = "None"

\* modulesetup() has returned after a step all of whose waits ended Unknown.
AbandonedUnheard ==
    /\ op = "modulesetup"
    /\ pc = "idle"
    /\ outcomes # << >>
    /\ AllUnknown(outcomes)

\* C3 as stated: a step of modulesetup() whose waits all end Unknown is
\* abandoned after exactly 5 writes of its packet, one per attempt, and the
\* setup reports failure.
C3_FiveWrites ==
    AbandonedUnheard =>
        /\ sent = RetryBound
        /\ Len(outcomes) = RetryBound
        /\ result = Return(PyNone)

\* C3 amended: a step of modulesetup() whose waits all end Unknown is
\* abandoned after exactly 6 writes of its packet (the first send and 5
\* retries, the retry bound), one per attempt, and the setup reports failure;
\* while such a step is still waiting, it has written once per wait begun.
C3_SixWrites ==
    (op = "modulesetup" /\ AllUnknown(outcomes)) =>
        /\ pc = "ack" => sent = Len(outcomes) + 1 /\ Len(outcomes) <= RetryBound
        /\ AbandonedUnheard =>
              /\ sent = RetryBound + 1
              /\ Len(outcomes) = RetryBound + 1
              /\ result = Return(PyNone)

C3_Witness == AbandonedUnheard /\ sent = RetryBound + 1 /\ step = 2

\* A wait of modulesetup() ends in this step, with the outcome flag'.
WaitEnds ==
    /\ op = "modulesetup"
    /\ pc = "ack"
    /\ pc' = "idle" \/ <<tx, sent>>' # <<tx, sent>>

\* C4: in modulesetup(), a wait that returns NegativeAcknowledged (False)
\* ends its step in failure at once: the step's packet is not written again;
\* only an Unknown outcome leads to a retry.
C4_NackEndsStep ==
    [][(WaitEnds /\ flag' = "False") =>
          (sent' = sent /\ tx' = tx /\ pc' = "idle" /\ result' = Return(PyNone))]_vars

\* The packets of a whole modulesetup(), in the order of their first write.
SetupOrder ==
    <<StepPacket(1), StepPacket(2), StepPacket(3), StepPacket(4),
      Framed(GnssStartBody), StepPacket(5), StepPacket(6), Framed(ResetBody)>>

IsPrefix(a, b) == Len(a) <= Len(b) /\ a = SubSeq(b, 1, Len(a))

\* The packets written so far are those of the steps reached, in the fixed
\* order, and every step before the current one was acknowledged.
SetupInOrder ==
    op = "modulesetup" =>
        /\ IsPrefix(tx, SetupOrder)
        /\ tx[Len(tx)] = IF pc = "idle" /\ result = Return(PyTrue)
                         THEN Framed(ResetBody) ELSE StepPacket(step)
        /\ 1 .. (step - 1) \subseteq acked
        /\ result = Return(PyTrue) <=> (pc = "idle" /\ acked = 1 .. Steps)
        /\ pc = "idle" => result \in {Return(PyTrue), Return(PyNone)}

\* A step's packet is first written only when the wait of the step before
\* has just returned an ACK; a step given up ends the call with no further
\* write and a result that is not True.
SetupStepwise ==
    /\ (op = "modulesetup" /\ step' = step + 1) => (WaitEnds /\ flag' = "True")
    /\ (WaitEnds /\ flag' # "True" /\ count = RetryBound) =>
          (pc' = "idle" /\ tx' = tx /\ sent' = sent /\ result' = Return(PyNone))

\* C5: modulesetup() runs its six acknowledged steps in the fixed order, a
\* step's packet is first written only after the step before was
\* acknowledged, a step that exhausts its retries ends the call with no later
\* packet written and a result that is not True, and the result is True only
\* if all six steps were acknowledged.
C5_OrderedShortCircuit == []SetupInOrder /\ [][SetupStepwise]_vars

C5_Witness ==
    /\ op = "modulesetup"
    /\ pc = "idle"
    /\ result = Return(PyNone)
    /\ step = 4
    /\ acked = {1, 2, 3}

\* The last n bytes of s (all of s when it is shorter).
LastBytes(s, n) == IF Len(s) <= n THEN s ELSE SubSeq(s, Len(s) - n + 1, Len(s))

\* C6: the sentence buffer never holds more than 512 bytes, and a read of
\* update_buffer() leaves in it exactly the last 512 bytes of the old buffer
\* followed by the bytes read.
C6_BufferBounded ==
    /\ [](Len(background_buffer) <= BufferCap)
    /\ [][reads' # reads =>
            background_buffer' = LastBytes(background_buffer \o last_read', BufferCap)]_vars

C6_Witness ==
    /\ Len(background_buffer) = BufferCap
    /\ reads = 3
    /\ last_read = Notices

\* C7: with exactly two well-formed sentences in the buffer, one pass of the
\* inner loop of _update_data takes out the first and leaves the second, the
\* next pass takes out the second and leaves nothing, and a pass on the empty
\* buffer takes out nothing.
C7_TwoSentencesInOrder ==
    [][pc = "inner" =>
        /\ \A s1 \in Sentences, s2 \in Sentences :
              background_buffer = s1 \o s2 =>
                  (data_section' = s1 /\ background_buffer' = s2)
        /\ \A s2 \in Sentences :
              background_buffer = s2 =>
                  (data_section' = s2 /\ background_buffer' = << >>)
        /\ background_buffer = << >> =>
              (pc' = "outer" /\ UNCHANGED <<background_buffer, data_section, data,
                                           sentences_read>>)]_vars

C7_Witness ==
    /\ pc = "outer"
    /\ background_buffer = << >>
    /\ data_section = GLL_NW
    /\ KeyGSA \in DOMAIN data
    /\ data[KeyGSA] = GSA_3D
    /\ sentences_read = 4

\* Every entry is a checksum-valid record filed under its characters 3..5.
CacheWellKeyed ==
    \A k \in DOMAIN data :
        /\ Len(k) = 3
        /\ k = PySlice(data[k], 3, 6)
        /\ _checksum(data[k])

\* A pass of the inner loop takes out a record that passes the checksum and
\* decodes.
ProcessesValid ==
    /\ pc = "inner"
    /\ ExtractNext(background_buffer).found
    /\ _checksum(ExtractNext(background_buffer).record)
    /\ Utf8Decode(ExtractNext(background_buffer).record).ok

\* The cache changes only when a valid record is processed, and then the
\* record is filed under its kind, in place of the entry that kind had: no
\* entry is removed, no other entry changes.
CacheLastWriteWins ==
    /\ data' # data => ProcessesValid
    /\ ProcessesValid =>
        /\ data_section' = Utf8Decode(ExtractNext(background_buffer).record).text
        /\ DOMAIN data' = DOMAIN data \cup {PySlice(data_section', 3, 6)}
        /\ data'[PySlice(data_section', 3, 6)] = data_section'
        /\ \A k \in DOMAIN data \ {PySlice(data_section', 3, 6)} : data'[k] = data[k]

\* C8: the cache has one entry per kind, each a checksum-valid record stored
\* under its characters 3..5 and equal to the valid record of that kind
\* processed last; no operation removes an entry or changes another kind's.
C8_CacheLastWriteWins == []CacheWellKeyed /\ [][CacheLastWriteWins]_vars

C8_Witness ==
    /\ KeyRMC \in DOMAIN data
    /\ KeyGGA \in DOMAIN data
    /\ data[KeyRMC] = RMC_V
    /\ data[KeyGGA] = GGA_1

\* C9: _checksum returns True for a record '$' + body + '*' + HH + "\r\n"
\* whose HH is the upper-case hex of the XOR of the body, and False once a
\* single body byte is replaced by a different byte other than '*'.
C9_ChecksumDetectsReplacement ==
    /\ arg.kind = "intact" => result = Return(PyTrue)
    /\ arg.kind = "replaced" => result = Return(PyFalse)

C9_Witness ==
    /\ arg.kind = "replaced"
    /\ arg.record = [GLL_NW EXCEPT ![18] = 83]
    /\ result = Return(PyFalse)

\* C10: with a cached sentence whose validity flag says "no fix", position()
\* returns absent latitude, longitude and horizontal error, velocity() absent
\* speed and course, altitude() absent altitude, geoid separation and
\* vertical error, and the sentence is still cached.
C10_NoFixIsAbsent ==
    /\ (Finished("position") /\ KeyGLL \in DOMAIN data
            /\ Item(GllFields, 6) # StatusA) =>
          (Returned("position") /\ \A i \in 1 .. 3 : IsAbsent(result.value[i]))
    /\ (Finished("velocity") /\ KeyRMC \in DOMAIN data
            /\ Item(RmcFields, 2) # StatusA) =>
          (Returned("velocity") /\ \A i \in 1 .. 2 : IsAbsent(result.value[i]))
    /\ (Finished("altitude") /\ KeyGGA \in DOMAIN data
            /\ Item(GgaFields, 6) = Quality0) =>
          (Returned("altitude") /\ \A i \in 1 .. 3 : IsAbsent(result.value[i]))

C10_Witness ==
    /\ Returned("position")
    /\ KeyGLL \in DOMAIN data
    /\ KeyGSA \in DOMAIN data
    /\ data[KeyGLL] = GLL_V
    /\ IsAbsent(result.value[1])

\* The timestamps position(), velocity() and altitude() return on the cache.
PositionTime == PositionOf(data).value[4]
VelocityTime == VelocityOf(data).value[3]
AltitudeTime == AltitudeOf(data).value[4]

Time235959 == <<50, 51, 58, 53, 57, 58, 53, 57>>

ClockTime(field) ==
    IF field = << >> THEN Absent
    ELSE PyStr(SubSeq(field, 1, 2) \o <<Colon>> \o SubSeq(field, 3, 4)
               \o <<Colon>> \o SubSeq(field, 5, 6))

\* C12: the timestamp position(), velocity() and altitude() return is
\* 'HH:MM:SS' for a time-of-day field HHMMSS or HHMMSS.sss of the cached
\* sentence, and absent for an empty field.
C12_TimestampFormat ==
    /\ (Returned("position") /\ KeyGLL \in DOMAIN data) =>
          result.value[4] = ClockTime(Item(GllFields, 5))
    /\ (Returned("velocity") /\ KeyRMC \in DOMAIN data) =>
          result.value[3] = ClockTime(Item(RmcFields, 1))
    /\ (Returned("altitude") /\ KeyGGA \in DOMAIN data) =>
          result.value[4] = ClockTime(Item(GgaFields, 1))

\* The two checksum bytes of the UBX protocol, reduced mod 256 after every
\* byte: A is the sum of the bytes, B the sum of the values A went through.
FletcherStep(prev, byte) ==
    <<(prev[1] + byte) % 256, (prev[2] + prev[1] + byte) % 256>>

\* The pair after stepping through bytes from the pair prev, one byte after
\* the other (the bytes are walked by halves to keep the evaluation shallow).
RECURSIVE FletcherFrom(_, _)
FletcherThen(mid, bytes) ==
    IF mid[1] \in 0 .. 255 /\ mid[2] \in 0 .. 255 THEN FletcherFrom(mid, bytes) ELSE mid
FletcherFrom(prev, bytes) ==
    IF bytes = << >> THEN prev
    ELSE IF Len(bytes) = 1 THEN FletcherStep(prev, bytes[1])
    ELSE FletcherThen(FletcherFrom(prev, SubSeq(bytes, 1, Len(bytes) \div 2)),
                      SubSeq(bytes, Len(bytes) \div 2 + 1, Len(bytes)))

Fletcher8(bytes) == FletcherFrom(<<0, 0>>, bytes)

\* header(2) class(1) id(1) length(2, little-endian) payload checksum(2)
WellFormedPacket(p) ==
    /\ Len(p) >= 8
    /\ SubSeq(p, 1, 2) = <<181, 98>>
    /\ p[5] + 256 * p[6] = Len(p) - 8
    /\ SubSeq(p, Len(p) - 1, Len(p)) = Fletcher8(SubSeq(p, 3, Len(p) - 2))

\* C13: every packet setrate, gnss_start, gnss_stop and modulesetup write
\* starts with 0xB5 0x62, has a little-endian length field equal to the number
\* of payload bytes, and ends with the checksum pair of class, id, length and
\* payload.
C13_PacketsWellFormed == \A i \in 1 .. Len(tx) : WellFormedPacket(tx[i])

C13_Witness ==
    /\ op = "modulesetup"
    /\ Len(tx) = 8
    /\ tx[8] = <<181, 98, 6, 4, 4, 0, 255, 255, 0, 0, 12, 93>>

RECURSIVE SumOf(_)
SumOf(s) ==
    IF s = << >> THEN 0
    ELSE IF Len(s) = 1 THEN s[1]
    ELSE SumOf(SubSeq(s, 1, Len(s) \div 2)) + SumOf(SubSeq(s, Len(s) \div 2 + 1, Len(s)))

\* The sums of the prefixes of s of length 1, 2, ..., Len(s).
PrefixSums(s) == [k \in 1 .. Len(s) |-> SumOf(SubSeq(s, 1, k))]

\* C14: _ubx_checksum returns (A, B) with A the sum of the bytes mod 256 and B
\* the sum of the running prefix sums mod 256; masking once at the end gives
\* the pair that reducing mod 256 after every step gives, and both are bytes.
C14_UbxChecksumPair ==
    arg.kind = "ubx" =>
        /\ result.value[1] = SumOf(arg.packet) % 256
        /\ result.value[2] = SumOf(PrefixSums(arg.packet)) % 256
        /\ result.value = Fletcher8(arg.packet)
        /\ result.value[1] \in 0 .. 255
        /\ result.value[2] \in 0 .. 255

C14_Witness ==
    /\ arg.kind = "ubx"
    /\ arg.packet = <<255, 255, 128>>
    /\ result = Return(<<126, 123>>)

\* C18: _checksum returns False, and does not raise, for every record from
\* '$' through a line feed that has no '*' or has fewer than two bytes between
\* the '*' and the line feed.
C18_ChecksumFailsClosed ==
    arg.kind = "malformed" => result = Return(PyFalse)

\* $A*4 and a line feed: the first checksum digit is right, the second missing.
C18_Witness ==
    /\ arg.kind = "malformed"
    /\ arg.record = <<36, 65, 42, 52, 10>>
    /\ result = Return(PyFalse)

Contains(s, sub) == \E i \in 0 .. (Len(s) - Len(sub)) : SubSeq(s, i + 1, i + Len(sub)) = sub

\* What the module answered in the wait that ended the call.
AckReceived == Contains(ackdata, <<181, 98, 5, 1>>) /\ ~Contains(ackdata, <<181, 98, 5, 0>>)
NackReceived == Contains(ackdata, <<181, 98, 5, 0>>) /\ ~Contains(ackdata, <<181, 98, 5, 1>>)
NothingReceived ==
    ~Contains(ackdata, <<181, 98, 5, 0>>) /\ ~Contains(ackdata, <<181, 98, 5, 1>>)

\* C15: modulesetup() and setrate() return True when an ACK was received,
\* False when a NACK was received and None when nothing was received.
C15_ReturnTellsAnswer ==
    (pc = "idle" /\ op \in {"modulesetup", "setrate"}) =>
        /\ AckReceived => result = Return(PyTrue)
        /\ NackReceived => result = Return(PyFalse)
        /\ NothingReceived => result = Return(PyNone)

\* No wait outlives its deadline, and a finished wait of setrate() has one of
\* the three results: None exactly when the bytes received hold no marker.
WaitBounded ==
    /\ ticks \in 0 .. AckPolls
    /\ (pc = "idle" /\ op = "setrate") =>
          /\ result \in {Return(PyTrue), Return(PyFalse), Return(PyNone)}
          /\ result = Return(PyNone) <=> NothingReceived

\* Once the deadline has passed, the next step of the wait is its return
\* (the caller is idle again or has begun another wait), with outcome None.
ReturnsAtDeadline ==
    (pc = "ack" /\ ticks = AckPolls) =>
        /\ pc' = "idle" \/ ticks' = 0
        /\ op = "modulesetup" => flag' = "None"
        /\ op = "setrate" => result' = Return(PyNone)

\* C16: every call of _ubx_ack_nack ends once its deadline has passed,
\* whatever the transport delivers, with a result that is True, False or
\* None, and None if no ack or nack marker was among the bytes received: no
\* wait stays at any reading of its clock for ever.
C16_WaitTerminates ==
    /\ []WaitBounded
    /\ [][ReturnsAtDeadline]_vars
    /\ \A t \in 0 .. AckPolls : []<>~(pc = "ack" /\ ticks = t)

\* A wait of setrate() that ran into its deadline having read only a sentence.
C16_Witness ==
    /\ pc = "idle"
    /\ op = "setrate"
    /\ ticks = AckPolls
    /\ ackdata = TXT_1
    /\ result = Return(PyNone)


\* The places in the received bytes where an acknowledgment reply begins: the
\* marker 0xB5 0x62 0x05 followed by the ack (1) or the nack (0) discriminator.
RepliesAt(s) ==
    {i \in 1 .. (Len(s) - 3) : SubSeq(s, i, i + 2) = <<181, 98, 5>> /\ s[i + 3] \in {0, 1}}

\* The discriminator of the earliest reply among the received bytes.
EarliestReply(s) ==
    s[(CHOOSE i \in RepliesAt(s) : \A j \in RepliesAt(s) : i <= j) + 3]

\* C20: the outcome of _ubx_ack_nack is decided by the byte that follows the
\* marker 0xB5 0x62 0x05 in the received bytes, 1 giving True and 0 giving
\* False; when a nack reply and a later ack reply were both received, the
\* earlier one decides.  Stated of a finished setrate(), whose result is the
\* outcome of its one wait.
C20_EarliestReplyDecides ==
    (pc = "idle" /\ op = "setrate" /\ RepliesAt(ackdata) # {}) =>
        result = Return(IF EarliestReply(ackdata) = 1 THEN PyTrue ELSE PyFalse)


\* The first '$' of the buffer and the first line feed at or after it, found
\* by position and not by find(); 0 when there is none.
FirstAt(b, from, byte) ==
    IF \E i \in from .. Len(b) : b[i] = byte
    THEN CHOOSE i \in from .. Len(b) : b[i] = byte /\ \A j \in from .. (i - 1) : b[j] # byte
    ELSE 0

RecordStart(b) == FirstAt(b, 1, Dollar)
RecordEnd(b) == IF RecordStart(b) = 0 THEN 0 ELSE FirstAt(b, RecordStart(b), LineFeed)

\* The frame of one extraction step, for the buffer b it begins with.
ExtractionFrame(b) ==
    IF RecordEnd(b) = 0
    THEN /\ background_buffer' = b
         /\ data_section' = data_section
         /\ data' = data
         /\ sentences_read' = sentences_read
    ELSE /\ background_buffer' = SubSeq(b, RecordEnd(b) + 1, Len(b))
         /\ \/ data_section' = SubSeq(b, RecordStart(b), RecordEnd(b))
            \/ /\ Utf8Decode(SubSeq(b, RecordStart(b), RecordEnd(b))).ok
               /\ data_section' = Utf8Decode(SubSeq(b, RecordStart(b), RecordEnd(b))).text

\* C17: one extraction step of _update_data extracts nothing and leaves the
\* buffer unchanged if the buffer has no '$' or no line feed at or after the
\* first '$'; otherwise the record is the span from the first '$' through the
\* first line feed after it, and the buffer afterwards is exactly the bytes
\* that followed that line feed.
C17_ExtractionStep ==
    [][pc = "inner" => ExtractionFrame(background_buffer)]_vars

\* A record has been extracted from behind the tail of a cut sentence: the
\* tail and the record are gone from the buffer.
C17_Witness ==
    /\ pc = "inner"
    /\ reads = 2
    /\ last_read = EpochFix
    /\ sentences_read = 1
    /\ data_section = RMC_A
    /\ background_buffer = GGA_1 \o GSA_3D \o GLL_NW


\* The record the next extraction step takes from buffer b.
NextRecord(b) == SubSeq(b, RecordStart(b), RecordEnd(b))

\* The records of the stream that are damaged: the one whose checksum is wrong
\* and the one that is not text.
Damaged(record) ==
    \/ record \in {GLL_BAD, TXT_RAW}
    \/ ~_checksum(record)
    \/ ~Utf8Decode(record).ok

\* C19: a record that fails checksum validation or is not valid text is
\* consumed from the buffer and discarded: the cache is unchanged, the record
\* is not counted as a read sentence, and _update_data goes on (its loops are
\* still running, nothing is raised or returned).
C19_DamagedDiscarded ==
    [][(pc = "inner" /\ RecordEnd(background_buffer) # 0
            /\ Damaged(NextRecord(background_buffer))) =>
          /\ background_buffer' =
                SubSeq(background_buffer, RecordEnd(background_buffer) + 1,
                       Len(background_buffer))
          /\ data' = data
          /\ sentences_read' = sentences_read
          /\ result' = result
          /\ pc' \in {"inner", "outer"}]_vars

\* Both damaged records of one read have been discarded and the records after
\* them stored: three sentences counted, the cut notice among them.
C19_Witness ==
    /\ pc = "inner"
    /\ reads = 2
    /\ last_read = TXT_tail
    /\ sentences_read = 3
    /\ background_buffer = << >>
    /\ DOMAIN data = {KeyGLL, SentenceHeader(TXT_2)}
    /\ data[KeyGLL] = GLL_SE
    /\ data[SentenceHeader(TXT_2)] = TXT_2


\* A step of a wait: the call that begins it, a pass of its loop, its return.
WaitStep == pc = "ack" \/ pc' = "ack"

\* The wait leaves the sentence buffer and the cache alone; its scratch starts
\* empty and only grows by what the wait reads.
WaitKeepsSentences ==
    WaitStep =>
        /\ UNCHANGED <<background_buffer, data, last_read, reads>>
        /\ pc = "idle" => ackdata' = << >>
        /\ pc = "ack" => IsPrefix(ackdata, ackdata')

\* A step outside a wait leaves the scratch alone, and what it reads is the
\* new end of the sentence buffer.
ReadKeepsScratch ==
    ~WaitStep =>
        /\ ackdata' = ackdata
        /\ reads' # reads =>
              background_buffer' =
                  SubSeq(background_buffer \o last_read',
                         Max(1, Len(background_buffer \o last_read') - BufferCap + 1),
                         Len(background_buffer \o last_read'))

Updating == pc \in {"outer", "inner"}

\* The transport has stopped and the buffer holds no complete record.
Starved ==
    /\ Updating
    /\ reads = MaxReads
    /\ RecordEnd(background_buffer) = 0

\* The count starts at 0 with the call, goes up by one exactly with a
\* checksum-valid, decodable record being stored, and is 5 at the return.
CountsStored ==
    /\ (pc = "idle" /\ pc' = "outer") => sentences_read' = 0
    /\ (Updating /\ sentences_read' # sentences_read) =>
          /\ sentences_read' = sentences_read + 1
          /\ RecordEnd(background_buffer) # 0
          /\ _checksum(NextRecord(background_buffer))
          /\ Utf8Decode(NextRecord(background_buffer)).ok
          /\ SentenceHeader(NextRecord(background_buffer)) \in DOMAIN data'
          /\ data'[SentenceHeader(NextRecord(background_buffer))] =
                NextRecord(background_buffer)
    /\ (Updating /\ data' # data) => sentences_read' = sentences_read + 1
    /\ (Updating /\ pc' = "idle") => sentences_read' = 5 /\ result' # NoResult
    /\ (Updating /\ sentences_read' < 5) => pc' # "idle"

\* A pass of the inner loop that stays in the loop has shortened the buffer.
InnerConsumes ==
    (pc = "inner" /\ pc' = "inner") => Len(background_buffer') < Len(background_buffer)

\* C22: _update_data returns only when exactly 5 checksum-valid, decodable
\* sentences have been stored during the call; while the transport delivers
\* complete valid sentences the call comes to its return, and once the
\* transport has stopped with no complete record left the call never returns.
C22_ReturnsOnFive ==
    /\ [][CountsStored]_vars
    /\ [][Starved => Starved']_vars
    /\ [][InnerConsumes]_vars
    /\ Updating ~> (pc = "idle" \/ Starved)

\* A call that has returned after two reads, and its fifth sentence.
C22_Witness ==
    /\ pc = "idle"
    /\ op = "position"
    /\ sentences_read = 5
    /\ reads = 2
    /\ result # NoResult
    /\ data_section = RMC_V


\* The reply of the given kind (1 ack, 0 nack) that names the command of packet:
\* marker, kind, length 2, then the command's class and id.
ReplyNaming(kind, packet) == <<181, 98, 5, kind, 2, 0, packet[3], packet[4]>>

\* C23: the acknowledgment that _ubx_ack_nack accepts is tied to the command
\* just sent: the outcome of a wait is True or False only if a reply of that
\* kind naming the class and id of the last written packet was received.
\* Stated of a finished setrate(), whose result is the outcome of its wait.
C23_ReplyNamesCommand ==
    (pc = "idle" /\ op = "setrate") =>
        /\ result = Return(PyTrue) => Contains(ackdata, ReplyNaming(1, tx[Len(tx)]))
        /\ result = Return(PyFalse) => Contains(ackdata, ReplyNaming(0, tx[Len(tx)]))


\* A complete ack or nack marker is among the bytes.
MarkerIn(bytes) == Contains(bytes, AckMarker) \/ Contains(bytes, NackMarker)

\* What the wait has received is kept from read to read, and the pass that
\* completes a marker is the last of the wait, with outcome True or False.
MarkerEndsWait ==
    pc = "ack" =>
        /\ (pc' = "ack" /\ ticks' = ticks + 1) => IsPrefix(ackdata, ackdata')
        /\ MarkerIn(ackdata') =>
              /\ pc' = "idle"
              /\ op = "setrate" => result' \in {Return(PyTrue), Return(PyFalse)}
              /\ op = "modulesetup" => flag' \in {"True", "False"}

\* C24: ack detection does not depend on how the transport splits the reply
\* into reads: a running wait never holds a complete marker, the pass whose
\* read completes one ends the wait with True or False, and a finished
\* setrate() whose received bytes hold a marker has not returned None.
C24_SplitReplyDetected ==
    /\ [](pc = "ack" => ~MarkerIn(ackdata))
    /\ []((pc = "idle" /\ op = "setrate" /\ MarkerIn(ackdata)) => result # Return(PyNone))
    /\ [][MarkerEndsWait]_vars

\* The first three bytes of the marker have been read and the wait goes on.
C24_Witness ==
    /\ pc = "ack"
    /\ op = "setrate"
    /\ ticks = 1
    /\ ackdata = <<181, 98, 5>>


\* C25: position() returns a latitude or longitude that is not absent only
\* if a GLL sentence with status 'A' and a GSA sentence are both cached, and
\* altitude() returns altitude values that are not absent only if a GGA
\* sentence with fix quality other than '0' and a GSA sentence are both
\* cached; with no GSA cached the values are absent even though the fix is
\* valid, and the timestamp of the sentence is still returned.
C25_FixNeedsGsa ==
    /\ (Returned("position") /\ \E i \in 1 .. 2 : ~IsAbsent(result.value[i])) =>
          /\ {KeyGLL, KeyGSA} \subseteq DOMAIN data
          /\ Item(GllFields, 6) = StatusA
    /\ (Returned("altitude") /\ \E i \in 1 .. 3 : ~IsAbsent(result.value[i])) =>
          /\ {KeyGGA, KeyGSA} \subseteq DOMAIN data
          /\ Item(GgaFields, 6) # Quality0
    /\ (Finished("position") /\ KeyGLL \in DOMAIN data /\ KeyGSA \notin DOMAIN data) =>
          /\ Returned("position")
          /\ \A i \in 1 .. 3 : IsAbsent(result.value[i])
          /\ Item(GllFields, 5) # << >> => ~IsAbsent(result.value[4])
    /\ (Finished("altitude") /\ KeyGGA \in DOMAIN data /\ KeyGSA \notin DOMAIN data) =>
          /\ Returned("altitude")
          /\ \A i \in 1 .. 3 : IsAbsent(result.value[i])
          /\ Item(GgaFields, 1) # << >> => ~IsAbsent(result.value[4])

\* position() on a valid fix with no GSA sentence cached: the coordinates are
\* absent and the time is returned.
C25_Witness ==
    /\ Returned("position")
    /\ KeyGLL \in DOMAIN data
    /\ KeyGSA \notin DOMAIN data
    /\ data[KeyGLL] = GLL_SE
    /\ IsAbsent(result.value[1])
    /\ IsAbsent(result.value[2])
    /\ ~IsAbsent(result.value[4])

=============================================================================
